---- MODULE Spec2Model ----
(***************************************************************************)
(* Character-level Markov chain of orders 1..13 stored in PostgreSQL.      *)
(*                                                                         *)
(* Strings are sequences of one-character strings.  The Cyrillic letters   *)
(* of the alphabet are written with the Latin stand-ins "a" and "m" (and   *)
(* their capitals "A", "M"); "#" stands for any character outside the      *)
(* alphabet.                                                               *)
(*                                                                         *)
(* The database is modelled as PostgreSQL behaves for the statements the   *)
(* code sends: every statement runs inside the connection's transaction    *)
(* (autocommit is off), TRUNCATE is transactional and takes an ACCESS      *)
(* EXCLUSIVE lock on its table until the transaction ends, another         *)
(* connection sees only committed rows, and closing a connection rolls     *)
(* its open transaction back.                                              *)
(***************************************************************************)
EXTENDS Integers, Sequences, FiniteSets, TLC

\* ------------------------------------------------------------------ bounds
MaxTextLen == 3      \* longest raw corpus of a training run
ConcRuns == 1        \* training runs that a concurrent reader runs beside
MaxRuns == 2         \* training runs of the main program in one behaviour
MaxSeedLen == 2      \* longest short seed of a generation
MaxGenLen == 2       \* longest generation
batch_size == 1      \* rows per chunk; the code's 10000, scaled to the corpus
MaxInputLen == 4     \* longest short text handed to a TextProcessor method
LongRuns == 1        \* training runs in a behaviour that may train on a long corpus

\* --------------------------------------------------------------- constants
MaxOrder == 13       \* orders 1..13
BulkMaxOrder == 5    \* bulk load only for n <= 5
Overall == 0         \* table id of overall_frequencies; markov_n has id n

ALLOWED_CHARS == {"a", "m", " ", ",", ".", "!", "?"}
RawChars == {"A", ",", "#"}
OrderChoices == {1, MaxOrder}
NormChars == {"a", ",", " "}
InputChars == {"a", "m", " ", ",", "A", "#"}
TableIds == 0..MaxOrder

\* ------------------------------------------------------------ text_processor
Min(x, y) == IF x < y THEN x ELSE y
Max(x, y) == IF x > y THEN x ELSE y

lower(c) == IF c = "A" THEN "a" ELSE IF c = "M" THEN "m" ELSE c

RECURSIVE collapse(_)
\* re.sub(r'\s+', ' ', text): every run of spaces becomes one space
collapse(text) ==
    IF Len(text) <= 1 THEN text
    ELSE IF text[1] = " " /\ text[2] = " " THEN collapse(Tail(text))
    ELSE <<text[1]>> \o collapse(Tail(text))

RECURSIVE lstrip(_)
lstrip(text) ==
    IF text # <<>> /\ text[1] = " " THEN lstrip(Tail(text)) ELSE text

RECURSIVE rstrip(_)
rstrip(text) ==
    IF text # <<>> /\ text[Len(text)] = " "
    THEN rstrip(SubSeq(text, 1, Len(text) - 1)) ELSE text

\* .lstrip() written for .strip(): trailing spaces kept
strip_left(text) == lstrip(text)

strip(text) == rstrip(lstrip(text))

normalize_text(text) ==
    LET lowered == [k \in 1..Len(text) |-> lower(text[k])]
        replaced == [k \in 1..Len(text) |->
                        IF lowered[k] \in ALLOWED_CHARS THEN lowered[k] ELSE " "]
    IN strip(collapse(replaced))

\* A Python dict is a sequence of <<key, value>> pairs in insertion order.
DictKeys(d) == {d[k][1] : k \in 1..Len(d)}
DictGet(d, key, default) ==
    IF key \in DictKeys(d)
    THEN d[CHOOSE k \in 1..Len(d) : d[k][1] = key][2]
    ELSE default
DictSet(d, key, value) ==
    IF key \in DictKeys(d)
    THEN [k \in 1..Len(d) |-> IF d[k][1] = key THEN <<key, value>> ELSE d[k]]
    ELSE Append(d, <<key, value>>)

RECURSIVE count_overall_loop(_, _, _)
count_overall_loop(text, k, frequencies) ==
    IF k > Len(text) THEN frequencies
    ELSE count_overall_loop(text, k + 1,
            IF text[k] \in ALLOWED_CHARS
            THEN DictSet(frequencies, text[k], DictGet(frequencies, text[k], 0) + 1)
            ELSE frequencies)

\* for char in text[1:]: the first character left out
count_overall_frequencies_skip_first(text) == count_overall_loop(text, 2, <<>>)

count_overall_frequencies(text) == count_overall_loop(text, 1, <<>>)

AllAllowed(s) == \A k \in 1..Len(s) : s[k] \in ALLOWED_CHARS

RECURSIVE count_markov_loop(_, _, _, _)
\* i is the Python index of the window: context = text[i:i+n], next = text[i+n]
count_markov_loop(text, n, i, frequencies) ==
    IF i >= Len(text) - n THEN frequencies
    ELSE LET context == SubSeq(text, i + 1, i + n)
             next_char == text[i + n + 1]
             symbols == DictGet(frequencies, context, <<>>)
         IN count_markov_loop(text, n, i + 1,
                IF AllAllowed(context) /\ next_char \in ALLOWED_CHARS
                THEN DictSet(frequencies, context,
                             DictSet(symbols, next_char, DictGet(symbols, next_char, 0) + 1))
                ELSE frequencies)

\* for i in range(len(text) - n - 1): the last window left out
count_markov_frequencies_short(text, n) ==
    count_markov_loop(SubSeq(text, 1, Len(text) - 1), n, 0, <<>>)

count_markov_frequencies(text, n) == count_markov_loop(text, n, 0, <<>>)

\* ------------------------------------------------------------------ database
\* for context, symbols in frequencies.items(): for symbol, freq in symbols.items()
RECURSIVE symbol_rows(_, _)
symbol_rows(context, symbols) ==
    IF symbols = <<>> THEN <<>>
    ELSE <<<<context, symbols[1][1], symbols[1][2]>>>> \o symbol_rows(context, Tail(symbols))

RECURSIVE markov_rows(_)
markov_rows(frequencies) ==
    IF frequencies = <<>> THEN <<>>
    ELSE symbol_rows(frequencies[1][1], frequencies[1][2]) \o markov_rows(Tail(frequencies))

\* data = [(symbol, freq) for symbol, freq in frequencies.items()]
overall_rows(frequencies) == frequencies

ToSet(rows) == {rows[k] : k \in 1..Len(rows)}

\* batch = data[i:i + batch_size + 1]: the slice taken one row too long
Batch_inclusive(rows, start) == SubSeq(rows, start + 1, Min(start + batch_size + 1, Len(rows)))

\* batch = data[i:i + batch_size]
Batch(rows, start) == SubSeq(rows, start + 1, Min(start + batch_size, Len(rows)))

\* csv.writer (QUOTE_MINIMAL): a field holding the delimiter, the quote character
\* or a line break is quoted, with its quotes doubled; str(freq) is decimal.
Digits == <<"0", "1", "2", "3", "4", "5", "6", "7", "8", "9">>

RECURSIVE IntToStr(_)
IntToStr(k) ==
    IF k < 10 THEN <<Digits[k + 1]>> ELSE IntToStr(k \div 10) \o <<Digits[(k % 10) + 1]>>

RECURSIVE StrToInt(_)
StrToInt(s) ==
    IF s = <<>> THEN 0
    ELSE 10 * StrToInt(SubSeq(s, 1, Len(s) - 1))
         + ((CHOOSE d \in 1..10 : Digits[d] = s[Len(s)]) - 1)

CsvSpecial == {",", "\"", "\n", "\r"}

RECURSIVE double_quotes(_)
double_quotes(s) ==
    IF s = <<>> THEN <<>>
    ELSE (IF s[1] = "\"" THEN <<"\"", "\"">> ELSE <<s[1]>>) \o double_quotes(Tail(s))

csv_field(s) ==
    IF \E k \in 1..Len(s) : s[k] \in CsvSpecial
    THEN <<"\"">> \o double_quotes(s) \o <<"\"">>
    ELSE s

\* writer.writerow([context, symbol, freq])
csv_writerow(row) ==
    csv_field(row[1]) \o <<",">> \o csv_field(<<row[2]>>) \o <<",">> \o csv_field(IntToStr(row[3]))

csv_write(data) == [k \in 1..Len(data) |-> csv_writerow(data[k])]

\* COPY ... FROM STDIN WITH CSV: split one line into its fields
RECURSIVE csv_split(_, _, _, _)
csv_split(line, k, quoted, field) ==
    IF k > Len(line) THEN <<field>>
    ELSE IF quoted
         THEN IF line[k] = "\""
              THEN IF k < Len(line) /\ line[k + 1] = "\""
                   THEN csv_split(line, k + 2, TRUE, Append(field, "\""))
                   ELSE csv_split(line, k + 1, FALSE, field)
              ELSE csv_split(line, k + 1, TRUE, Append(field, line[k]))
         ELSE IF line[k] = "\"" THEN csv_split(line, k + 1, TRUE, field)
              ELSE IF line[k] = "," THEN <<field>> \o csv_split(line, k + 1, FALSE, <<>>)
              ELSE csv_split(line, k + 1, FALSE, Append(field, line[k]))

\* one loaded row (context, symbol, frequency); symbol is VARCHAR, here one character
copy_row(line) ==
    LET fields == csv_split(line, 1, FALSE, <<>>)
    IN <<fields[1], fields[2][1], StrToInt(fields[3])>>

copy_expert(file) == {copy_row(file[k]) : k \in 1..Len(file)}

\* ------------------------------------------------------------------- queries
RECURSIVE GCD(_, _)
GCD(x, y) == IF y = 0 THEN x ELSE GCD(y, x % y)

\* freq / total, as the fraction in lowest terms
Ratio(freq, total) == <<freq \div GCD(freq, total), total \div GCD(freq, total)>>

RECURSIVE SumFreq(_)
\* sum(freq for _, freq in rows); the frequency is a row's last column
SumFreq(rows) ==
    IF rows = {} THEN 0
    ELSE LET r == CHOOSE x \in rows : TRUE
         IN r[Len(r)] + SumFreq(rows \ {r})

EmptyDict == [s \in {} |-> <<0, 1>>]

\* SELECT symbol, frequency FROM markov_n WHERE context = %s
select_context(view, order, context) == {r \in view[order] : r[1] = context}

\* the total taken over the whole table instead of the context's rows
get_markov_total_wrong(view, order, context) == SumFreq(view[order])

get_markov_total(view, order, context) == SumFreq(select_context(view, order, context))

get_markov_probabilities(view, order, context) ==
    LET rows == select_context(view, order, context)
        total == get_markov_total(view, order, context)
    IN IF rows = {} THEN EmptyDict
       ELSE [s \in {r[2] : r \in rows} |->
                LET r == CHOOSE x \in rows : x[2] = s
                IN IF total > 0 THEN Ratio(r[3], total) ELSE <<0, 1>>]

\* SELECT symbol, frequency FROM overall_frequencies
get_overall_probabilities(view) ==
    LET rows == view[Overall]
        total == SumFreq(rows)
    IN [s \in {r[1] : r \in rows} |->
           LET r == CHOOSE x \in rows : x[1] = s
           IN IF total > 0 THEN Ratio(r[2], total) ELSE <<0, 1>>]

get_probabilities(view, context) ==
    IF Len(context) = 0 \/ Len(context) > MaxOrder THEN EmptyDict
    ELSE get_markov_probabilities(view, Len(context), context)

\* --------------------------------------------------------------------- state
VARIABLES
    committed,        \* table id -> rows every connection sees (durable content)
    work,             \* table id -> rows as the program's own transaction sees them
    locked,           \* tables the program's open transaction has truncated
    inTxn,            \* the program's connection has an open transaction
    conn,             \* "none", "open" or "closed": MarkovDatabase.conn
    pc,               \* position of the main program
    runs,             \* training runs started so far
    normalized_text,  \* train_from_file's normalized_text
    max_order,        \* train_from_file's max_order
    use_bulk_insert,  \* train_from_file's use_bulk_insert
    n,                \* order being saved (0: the overall table)
    data,             \* the rows of the table being saved, in insertion order
    i,                \* Python index of the next chunk in data
    before,           \* committed rows of table n when its save was called
    failedAt,         \* <<pc, i>> of the statement that raised, or <<>>
    tmpfile,          \* lines of the staged CSV file
    probs,            \* result of the last get_probabilities of the main program
    lookupCtx,        \* its argument
    rd,               \* last query of a concurrent connection, or <<>>
    seed,             \* generate_text's seed
    length,           \* generate_text's length
    result,           \* generate_text's result
    current_context,  \* generate_text's current_context
    gi,               \* iterations of the generation loop completed
    src,              \* what the last iteration sampled from, or <<>>
    text,             \* the text a TextProcessor method is called with
    ret               \* the last TextProcessor call and what it returned, or <<>>

dbVars == <<committed, work, locked, inTxn, conn>>
trVars == <<pc, runs, normalized_text, max_order, use_bulk_insert, n, data, i,
            before, failedAt, tmpfile>>
qVars == <<probs, lookupCtx>>
genVars == <<seed, length, result, current_context, gi, src>>
tpVars == <<text, ret>>
vars == <<dbVars, trVars, qVars, rd, genVars, tpVars>>

RECURSIVE StringsUpTo(_, _)
StringsUpTo(chars, len) ==
    IF len = 0 THEN {<<>>}
    ELSE LET shorter == StringsUpTo(chars, len - 1)
         IN shorter \cup {Append(s, c) : s \in shorter, c \in chars}

RawTexts == StringsUpTo(RawChars, MaxTextLen)

\* MarkovModel() constructed, nothing called yet
Constructed ==
    /\ committed = [t \in TableIds |-> {}]
    /\ work = [t \in TableIds |-> {}]
    /\ locked = {}
    /\ inTxn = FALSE
    /\ conn = "none"
    /\ pc = "idle"
    /\ runs = 0
    /\ normalized_text = <<>>
    /\ max_order = MaxOrder
    /\ use_bulk_insert = FALSE
    /\ n = 0
    /\ data = <<>>
    /\ i = 0
    /\ before = {}
    /\ failedAt = <<>>
    /\ tmpfile = <<>>
    /\ probs = <<>>
    /\ lookupCtx = <<>>
    /\ rd = <<>>
    /\ seed = <<>>
    /\ length = 0
    /\ result = <<>>
    /\ current_context = <<>>
    /\ gi = 0
    /\ src = <<>>

Init ==
    /\ Constructed
    /\ text = <<>>
    /\ ret = <<>>

\* ------------------------------------------------- the connection's transaction
\* cursor.execute('TRUNCATE TABLE ...'): transactional, locks the table
execute_truncate(t) ==
    /\ work' = [work EXCEPT ![t] = {}]
    /\ locked' = locked \cup {t}
    /\ inTxn' = TRUE
    /\ UNCHANGED <<committed, conn>>

\* conn.commit() after inserting rows into table t
insert_commit(t, rows) ==
    /\ work' = [work EXCEPT ![t] = @ \cup rows]
    /\ committed' = work'
    /\ locked' = {}
    /\ inTxn' = FALSE
    /\ UNCHANGED conn

\* cursor inserts without commit
insert_rows(t, rows) ==
    /\ work' = [work EXCEPT ![t] = @ \cup rows]
    /\ inTxn' = TRUE
    /\ UNCHANGED <<committed, locked, conn>>

commit ==
    /\ committed' = work
    /\ locked' = {}
    /\ inTxn' = FALSE
    /\ UNCHANGED <<work, conn>>

\* the except branch committing the transaction instead of rolling it back
rollback_commits ==
    /\ committed' = work
    /\ locked' = {}
    /\ inTxn' = FALSE
    /\ UNCHANGED <<work, conn>>

rollback ==
    /\ work' = committed
    /\ locked' = {}
    /\ inTxn' = FALSE
    /\ UNCHANGED <<committed, conn>>

\* ------------------------------------------------------------ train_from_file
\* main(): model = MarkovModel(); model.train_from_file(text_file, ...) up to the
\* first statement of save_overall_frequencies
TrainStart(raw, mo, bulk) ==
    /\ pc \in {"idle", "closed"}
    /\ runs' = runs + 1
    /\ normalized_text' = normalize_text(raw)
    /\ max_order' = mo
    /\ use_bulk_insert' = bulk
    /\ conn' = "open"                       \* connect(); create_tables() commits
    /\ work' = committed
    /\ locked' = {}
    /\ inTxn' = FALSE
    /\ n' = Overall
    /\ data' = overall_rows(count_overall_frequencies(normalized_text'))
    /\ i' = 0
    /\ before' = committed[Overall]
    /\ failedAt' = <<>>
    /\ tmpfile' = <<>>
    /\ probs' = <<>>
    /\ lookupCtx' = <<>>
    /\ pc' = "ov_truncate"
    /\ UNCHANGED <<committed, rd, genVars, tpVars>>

OverallTruncate ==
    /\ pc = "ov_truncate"
    /\ execute_truncate(Overall)
    /\ pc' = "ov_insert"
    /\ UNCHANGED <<runs, normalized_text, max_order, use_bulk_insert, n, data, i,
                   before, failedAt, tmpfile, qVars, rd, genVars, tpVars>>

OverallInsert ==
    /\ pc = "ov_insert"
    /\ insert_commit(Overall, ToSet(data))
    /\ pc' = "saved"
    /\ UNCHANGED <<runs, normalized_text, max_order, use_bulk_insert, n, data, i,
                   before, failedAt, tmpfile, qVars, rd, genVars, tpVars>>

\* for n in range(1, max_order + 1): count, then call the save of order n
NextOrder ==
    /\ pc = "saved"
    /\ IF n + 1 <= max_order
       THEN /\ n' = n + 1
            /\ data' = markov_rows(count_markov_frequencies(normalized_text, n + 1))
            /\ i' = 0
            /\ before' = committed[n + 1]
            /\ pc' = "truncate"
       ELSE /\ pc' = "stats"
            /\ UNCHANGED <<n, data, i, before>>
    /\ UNCHANGED <<dbVars, runs, normalized_text, max_order, use_bulk_insert,
                   failedAt, tmpfile, qVars, rd, genVars, tpVars>>

UsesBulk == use_bulk_insert /\ n <= BulkMaxOrder

\* save_markov_frequencies / save_markov_frequencies_bulk: TRUNCATE
Truncate ==
    /\ pc = "truncate"
    /\ execute_truncate(n)
    /\ pc' = IF UsesBulk THEN "stage"
             ELSE IF 0 < Len(data) THEN "insert" ELSE "saved"
    /\ UNCHANGED <<runs, normalized_text, max_order, use_bulk_insert, n, data, i,
                   before, failedAt, tmpfile, qVars, rd, genVars, tpVars>>

\* save_markov_frequencies: one pass of the chunk loop, execute_batch and commit
InsertBatch ==
    /\ pc = "insert"
    /\ insert_commit(n, ToSet(Batch(data, i)))
    /\ i' = i + batch_size
    /\ pc' = IF i' < Len(data) THEN "insert" ELSE "saved"
    /\ UNCHANGED <<runs, normalized_text, max_order, use_bulk_insert, n, data,
                   before, failedAt, tmpfile, qVars, rd, genVars, tpVars>>

\* save_markov_frequencies_bulk: write the temporary CSV file
BulkStage ==
    /\ pc = "stage"
    /\ tmpfile' = csv_write(data)
    /\ pc' = "copy"
    /\ UNCHANGED <<dbVars, runs, normalized_text, max_order, use_bulk_insert, n, data,
                   i, before, failedAt, qVars, rd, genVars, tpVars>>

BulkCopy ==
    /\ pc = "copy"
    /\ insert_rows(n, copy_expert(tmpfile))
    /\ pc' = "commit"
    /\ UNCHANGED <<runs, normalized_text, max_order, use_bulk_insert, n, data, i,
                   before, failedAt, tmpfile, qVars, rd, genVars, tpVars>>

BulkCommit ==
    /\ pc = "commit"
    /\ commit
    /\ pc' = "unlink"
    /\ UNCHANGED <<runs, normalized_text, max_order, use_bulk_insert, n, data, i,
                   before, failedAt, tmpfile, qVars, rd, genVars, tpVars>>

BulkUnlink ==
    /\ pc = "unlink"
    /\ tmpfile' = <<>>
    /\ pc' = "saved"
    /\ UNCHANGED <<dbVars, runs, normalized_text, max_order, use_bulk_insert, n, data,
                   i, before, failedAt, qVars, rd, genVars, tpVars>>

FailPoints == {"ov_truncate", "ov_insert", "truncate", "insert",
               "stage", "copy", "commit", "unlink"}

\* the statement at pc raises: except: self.conn.rollback(); raise
Raise ==
    /\ pc \in FailPoints
    /\ rollback
    /\ failedAt' = <<pc, i>>
    /\ pc' = "raised"
    /\ UNCHANGED <<runs, normalized_text, max_order, use_bulk_insert, n, data, i,
                   before, tmpfile, qVars, rd, genVars, tpVars>>

\* get_database_stats(): SELECTs only, errors swallowed
Stats ==
    /\ pc = "stats"
    /\ inTxn' = TRUE
    /\ pc' = "trained"
    /\ UNCHANGED <<committed, work, locked, conn, runs, normalized_text, max_order,
                   use_bulk_insert, n, data, i, before, failedAt, tmpfile, qVars, rd, genVars, tpVars>>

\* main(): finally: model.close(); an open transaction is rolled back.  The
\* locals of the save that was running are gone once the program has ended.
Close ==
    /\ pc \in {"trained", "looked", "generated", "raised"}
    /\ work' = committed
    /\ locked' = {}
    /\ inTxn' = FALSE
    /\ conn' = "closed"
    /\ pc' = "closed"
    /\ use_bulk_insert' = FALSE
    /\ n' = 0
    /\ data' = <<>>
    /\ i' = 0
    /\ before' = {}
    /\ tmpfile' = <<>>
    /\ probs' = <<>>
    /\ lookupCtx' = <<>>
    /\ seed' = <<>>
    /\ length' = 0
    /\ result' = <<>>
    /\ current_context' = <<>>
    /\ gi' = 0
    /\ src' = <<>>
    /\ UNCHANGED <<committed, runs, normalized_text, max_order, failedAt, rd, tpVars>>

\* main(): probs = model.get_probabilities(context) after training
Lookup(context) ==
    /\ pc \in {"trained", "looked"}
    /\ probs' = get_probabilities(work, context)
    /\ lookupCtx' = context
    /\ inTxn' = TRUE
    /\ pc' = "looked"
    /\ UNCHANGED <<committed, work, locked, conn, runs, normalized_text, max_order,
                   use_bulk_insert, n, data, i, before, failedAt, tmpfile, rd, genVars, tpVars>>

RECURSIVE Repeat(_, _)
Repeat(c, k) == IF k = 0 THEN <<>> ELSE <<c>> \o Repeat(c, k - 1)

LookupContexts == StringsUpTo(NormChars, 2) \cup {Repeat("a", MaxOrder + 1)}

Training(limit) ==
    \/ /\ runs < limit
       /\ \E raw \in RawTexts, mo \in OrderChoices, bulk \in BOOLEAN :
              TrainStart(raw, mo, bulk)
    \/ OverallTruncate
    \/ OverallInsert
    \/ NextOrder
    \/ Truncate
    \/ InsertBatch
    \/ BulkStage
    \/ BulkCopy
    \/ BulkCommit
    \/ BulkUnlink
    \/ Raise
    \/ Stats
    \/ Close

\* ------------------------------------------------------------- generate_text
\* s[-k:] of Python: for k = 0 the whole string
LastChars(s, k) == IF k = 0 THEN s ELSE SubSeq(s, Max(Len(s) - k, 0) + 1, Len(s))

\* result = seed, cut to the context's length
initial_result_truncated(sd) == LastChars(sd, Min(Len(sd), MaxOrder))

\* result = seed
initial_result(sd) == sd

\* current_context = seed: the seed taken whole as the first context
initial_context_whole(sd) == sd

\* current_context = seed[-min(len(seed), 13):]
initial_context(sd) == LastChars(sd, Min(Len(sd), MaxOrder))

\* current_context = current_context[:-1]: the newest character dropped
drop_newest(context) == SubSeq(context, 1, Len(context) - 1)

\* current_context = current_context[1:]
drop_oldest(context) == Tail(context)

RECURSIVE back_off(_, _)
\* while not probs and len(current_context) > 1: the context the loop ends with
back_off(view, context) ==
    IF get_probabilities(view, context) = EmptyDict /\ Len(context) > 1
    THEN back_off(view, drop_oldest(context))
    ELSE context

\* next_char = '': nothing appended when the model is empty
default_char_empty == <<>>

\* next_char = ' '
default_char == <<" ">>

\* random.choices(symbols, weights): the symbols of positive weight
Support(dist) == {s \in DOMAIN dist : dist[s][1] > 0}

GenerateStart(sd, len) ==
    /\ pc \in {"trained", "looked"}
    /\ seed' = sd
    /\ length' = len
    /\ result' = initial_result(sd)
    /\ current_context' = initial_context(sd)
    /\ gi' = 0
    /\ src' = <<>>
    /\ pc' = "generating"
    /\ UNCHANGED <<dbVars, runs, normalized_text, max_order, use_bulk_insert, n, data, i,
                   before, failedAt, tmpfile, qVars, rd, tpVars>>

\* the context the back-off loop ends with, and what get_probabilities finds for it
StepUsed == back_off(work, current_context)
StepFound == get_probabilities(work, StepUsed)

\* if not probs: probs = self.db.get_overall_probabilities()
StepDist == IF StepFound # EmptyDict THEN StepFound ELSE get_overall_probabilities(work)

\* order of the table sampled from: 0 the overall table, -1 none (the default symbol)
StepOrder ==
    IF StepFound # EmptyDict THEN Len(StepUsed)
    ELSE IF StepDist # EmptyDict THEN 0 ELSE -1

\* the values next_char can take
NextChars ==
    IF StepDist # EmptyDict THEN {<<s>> : s \in Support(StepDist)} ELSE {default_char}

\* one pass of `for i in range(length)`
GenStep ==
    /\ pc = "generating"
    /\ gi < length
    /\ \E next_char \in NextChars :
            /\ result' = result \o next_char
            /\ current_context' = LastChars(StepUsed \o next_char, MaxOrder)
            /\ src' = [context |-> current_context, used |-> StepUsed, order |-> StepOrder,
                       dist |-> StepDist, char |-> next_char]
    /\ gi' = gi + 1
    /\ inTxn' = TRUE
    /\ UNCHANGED <<committed, work, locked, conn, trVars, qVars, rd, seed, length, tpVars>>

\* return result
GenReturn ==
    /\ pc = "generating"
    /\ gi >= length
    /\ pc' = "generated"
    /\ UNCHANGED <<dbVars, runs, normalized_text, max_order, use_bulk_insert, n, data, i,
                   before, failedAt, tmpfile, qVars, rd, genVars, tpVars>>

LongSeeds == {Repeat("a", MaxOrder - 1) \o s : s \in StringsUpTo(NormChars, 2) \ {<<>>}}
Seeds == StringsUpTo(NormChars, MaxSeedLen) \cup LongSeeds

Generation ==
    \/ \E sd \in Seeds, len \in 0..MaxGenLen : GenerateStart(sd, len)
    \/ GenStep
    \/ GenReturn


Next ==
    \/ Training(MaxRuns)
    \/ \E context \in LookupContexts : Lookup(context)

Spec == Init /\ [][Next]_vars

\* the main program with its generation step
NextGen ==
    \/ Training(MaxRuns)
    \/ Generation

SpecGen == Init /\ [][NextGen]_vars

\* corpora long enough to fill the order-13 table
LongCorpora == {Repeat("A", MaxOrder + 1), Repeat("A", MaxOrder) \o <<",">>}

\* main(): train_from_file on a long corpus, all 13 orders
TrainLong ==
    /\ runs < LongRuns
    /\ \E raw \in LongCorpora, bulk \in BOOLEAN : TrainStart(raw, MaxOrder, bulk)

\* the main program generating from short and from long corpora
NextGenLong ==
    \/ TrainLong
    \/ Training(LongRuns)
    \/ Generation

SpecGenLong == Init /\ [][NextGenLong]_vars

\* -------------------------------------------------- a generator's own connection
\* statements of save_overall_frequencies / of the save of order n still to run
OverallPhases == {"ov_truncate", "ov_insert"}
SavePhases == {"truncate", "insert", "stage", "copy", "commit", "unlink"}

Replacing(t) ==
    IF t = Overall THEN pc \in OverallPhases ELSE pc \in SavePhases /\ n = t

\* get_probabilities(context) sent from another connection while the main program
\* runs: the SELECT waits while the table is locked, and reads committed rows.
\* old and new record what the complete table before the running save, and the
\* complete table it is loading, answer to the same query.
ReaderQuery(context) ==
    LET t == Len(context)
    IN /\ t \in 1..MaxOrder
       /\ t \notin locked
       /\ rd' = [table |-> t,
                 context |-> context,
                 result |-> get_markov_probabilities(committed, t, context),
                 during |-> Replacing(t),
                 old |-> IF Replacing(t)
                         THEN get_markov_probabilities([committed EXCEPT ![t] = before], t, context)
                         ELSE get_markov_probabilities(committed, t, context),
                 new |-> IF Replacing(t)
                         THEN get_markov_probabilities([committed EXCEPT ![t] = ToSet(data)], t, context)
                         ELSE get_markov_probabilities(committed, t, context)]
       /\ UNCHANGED <<dbVars, trVars, qVars, genVars, tpVars>>

\* get_overall_probabilities() sent from another connection
ReaderOverall ==
    /\ Overall \notin locked
    /\ rd' = [table |-> Overall,
              context |-> <<>>,
              result |-> get_overall_probabilities(committed),
              during |-> Replacing(Overall),
              old |-> IF Replacing(Overall)
                      THEN get_overall_probabilities([committed EXCEPT ![Overall] = before])
                      ELSE get_overall_probabilities(committed),
              new |-> IF Replacing(Overall)
                      THEN get_overall_probabilities([committed EXCEPT ![Overall] = ToSet(data)])
                      ELSE get_overall_probabilities(committed)]
    /\ UNCHANGED <<dbVars, trVars, qVars, genVars, tpVars>>

ReaderContexts == StringsUpTo(NormChars, 2) \ {<<>>}

\* a training run with a generator querying from its own connection
NextConc ==
    \/ Training(ConcRuns)
    \/ \E context \in ReaderContexts : ReaderQuery(context)
    \/ ReaderOverall

SpecConc == Init /\ [][NextConc]_vars

\* ------------------------------------------------- TextProcessor on its own
\* texts a method is called with: every short text over InputChars, and texts
\* long enough to hold windows of the highest orders
LongInputs ==
    {Repeat("a", MaxOrder - 1) \o s : s \in StringsUpTo(InputChars, 2) \ {<<>>}}
        \cup {Repeat("a", MaxOrder + 2)}
InputTexts == StringsUpTo(InputChars, MaxInputLen) \cup LongInputs

InitText ==
    /\ Constructed
    /\ text \in InputTexts
    /\ ret = <<>>

\* text = normalize_text(text): the caller goes on with the returned string
Normalize ==
    /\ ret' = [fn |-> "normalize_text", text |-> text, n |-> 0,
               value |-> normalize_text(text)]
    /\ text' = normalize_text(text)
    /\ UNCHANGED <<dbVars, trVars, qVars, rd, genVars>>

CountOverall ==
    /\ ret' = [fn |-> "count_overall_frequencies", text |-> text, n |-> 0,
               value |-> count_overall_frequencies(text)]
    /\ UNCHANGED <<dbVars, trVars, qVars, rd, genVars, text>>

CountMarkov(order) ==
    /\ ret' = [fn |-> "count_markov_frequencies", text |-> text, n |-> order,
               value |-> count_markov_frequencies(text, order)]
    /\ UNCHANGED <<dbVars, trVars, qVars, rd, genVars, text>>

NextText ==
    \/ Normalize
    \/ CountOverall
    \/ \E order \in 1..MaxOrder : CountMarkov(order)

SpecText == InitText /\ [][NextText]_vars

\* ============================================================== store claims
SumDict(d) == SumFreq(ToSet(d))

\* the order-n table T the finished run counted, and T[c]
TableOf(order) == count_markov_frequencies(normalized_text, order)
Stored(context) == DictGet(TableOf(Len(context)), context, <<>>)

\* a lookup whose order the finished run has just replaced
RoundTrip == pc = "looked" /\ Len(lookupCtx) \in 1..max_order

C2_CommittedIsT ==
    (pc = "saved" /\ n >= 1) => committed[n] = ToSet(data)

\* rows the run's text yields for a table
CountedRows(t) ==
    IF t = Overall THEN ToSet(overall_rows(count_overall_frequencies(normalized_text)))
    ELSE ToSet(markov_rows(TableOf(t)))

\* C3: after a training run (here one over all 13 orders) has returned without
\* error and the connection is closed, every persisted table holds only rows
\* counted from this run's normalized text.
C3_OnlyThisRunsRows ==
    (pc = "closed" /\ failedAt = <<>> /\ max_order = MaxOrder) =>
        \A t \in TableIds : committed[t] \subseteq CountedRows(t)

\* C6: a successful batched replaceOrder(n, T) leaves the order-n table with the
\* content a successful bulk replaceOrder(n, T) leaves: the rows COPY loads from
\* the CSV file written for T.
C6_BatchedEqualsBulk ==
    (pc = "saved" /\ n >= 1) => committed[n] = copy_expert(csv_write(data))

BulkPhases == {"truncate", "stage", "copy", "commit"}

\* C7: a failure during truncate, staging, copy or commit of the bulk strategy
\* raises and leaves the committed order-n table exactly as it was before the call.
C7_BulkAllOrNothing ==
    (pc = "raised" /\ n >= 1 /\ UsesBulk /\ failedAt[1] \in BulkPhases) =>
        committed[n] = before

\* the commit of a non-empty bulk load fails on a table that held rows
C7_Witness ==
    /\ pc = "raised" /\ n >= 1 /\ UsesBulk
    /\ failedAt[1] = "commit"
    /\ before # {}
    /\ data # <<>>
    /\ ToSet(data) # before

\* the chunk (1-based) whose insert raised
FailedChunk == (failedAt[2] \div batch_size) + 1

\* C8: a failure while inserting chunk k of the batched strategy raises and leaves
\* the persisted order-n table holding exactly chunks 1..k-1 of T; for k = 1 the
\* table is unchanged.
C8_BatchedFailureState ==
    (pc = "raised" /\ n >= 1 /\ ~UsesBulk /\ failedAt[1] = "insert") =>
        IF FailedChunk = 1 THEN committed[n] = before
        ELSE committed[n] = ToSet(SubSeq(data, 1, (FailedChunk - 1) * batch_size))

\* chunk 2 fails on a table that held other rows before the call
C8_Witness ==
    /\ pc = "raised" /\ n >= 1 /\ ~UsesBulk /\ failedAt[1] = "insert"
    /\ FailedChunk >= 2
    /\ before # {}
    /\ ~(before \subseteq ToSet(data))

\* chunk 1 fails on a table that held rows before the call
C8_WitnessFirstChunk ==
    /\ pc = "raised" /\ n >= 1 /\ ~UsesBulk /\ failedAt[1] = "insert"
    /\ FailedChunk = 1
    /\ before # {}

\* ========================================================== generator claims
Suffix(s, k) == SubSeq(s, Len(s) - k + 1, Len(s))

\* lengths k of the suffixes of context that have rows in the order-k table
StoredSuffixes(context) ==
    {k \in 1..Min(Len(context), MaxOrder) :
        \E r \in work[k] : r[1] = Suffix(context, k)}

SetMax(S) == CHOOSE x \in S : \A y \in S : y <= x

\* C4: every generation step samples from the stored order-k distribution of the
\* longest suffix of currentContext that has one (the leading characters are the
\* ones dropped), and from the overall distribution only when no suffix has one.
C4_LongestSuffix ==
    (pc \in {"generating", "generated"} /\ src # <<>>) =>
        LET matches == StoredSuffixes(src.context)
        IN IF matches # {}
           THEN /\ src.order = SetMax(matches)
                /\ src.used = Suffix(src.context, SetMax(matches))
                /\ src.dist = get_markov_probabilities(work, SetMax(matches), src.used)
           ELSE /\ src.order <= 0
                /\ src.order = 0 <=> work[Overall] # {}
                /\ src.dist = get_overall_probabilities(work)

\* a 13-character context unseen at full length, sampled at order 1
C4_Witness ==
    /\ pc \in {"generating", "generated"} /\ src # <<>>
    /\ Len(src.context) = MaxOrder
    /\ src.order = 1
    /\ work[Overall] # {}

\* a context that matches at orders 1 and 2, sampled at order 2
C4_WitnessLongest ==
    /\ pc \in {"generating", "generated"} /\ src # <<>>
    /\ StoredSuffixes(src.context) = {1, 2}
    /\ src.order = 2

\* a context no suffix of which is stored, sampled from the overall table
C4_WitnessOverall ==
    /\ pc \in {"generating", "generated"} /\ src # <<>>
    /\ Len(src.context) >= 2
    /\ src.order = 0

\* C5: generate(seed, length) terminates and returns the full seed followed by
\* exactly `length` symbols: every pass of the loop has a symbol to append, the
\* loop counter never passes length, and result stays seed + one symbol per pass.
C5_SeedThenLength ==
    /\ pc = "generating" =>
          /\ gi <= length
          /\ Len(result) = Len(seed) + gi
          /\ SubSeq(result, 1, Len(seed)) = seed
          /\ gi < length => NextChars # {}
    /\ pc = "generated" =>
          /\ Len(result) = Len(seed) + length
          /\ SubSeq(result, 1, Len(seed)) = seed

\* a seed longer than 13 characters, generated to the full length
C5_Witness ==
    /\ pc = "generated"
    /\ Len(seed) > MaxOrder
    /\ length = MaxGenLen
    /\ work[1] # {}

\* a generation from the empty seed
C5_WitnessEmptySeed ==
    /\ pc = "generated"
    /\ seed = <<>>
    /\ length = MaxGenLen

EmptyModel == \A t \in TableIds : work[t] = {}

\* C10: with the overall table and all order tables empty, generation does not
\* raise and returns the seed followed by `length` spaces, sampling nothing.
C10_EmptyModelSpaces ==
    (EmptyModel /\ pc \in {"generating", "generated"}) =>
        /\ result = seed \o Repeat(" ", gi)
        /\ src # <<>> => src.order = -1 /\ src.dist = EmptyDict
        /\ (pc = "generating" /\ gi < length) => NextChars = {<<" ">>}
        /\ pc = "generated" => gi = length

\* an empty model asked for the longest generation from a non-empty seed
C10_Witness ==
    /\ EmptyModel
    /\ pc = "generated"
    /\ seed # <<>>
    /\ length = MaxGenLen

\* ========================================================= concurrency claims
\* C9: a query issued from another connection while the table is being replaced
\* returns the answer over the complete old table or over the complete new table.
C9_OldOrNew ==
    (rd # <<>> /\ rd.during) => rd.result \in {rd.old, rd.new}

\* ===================================================== text processor claims
\* start indices of the windows of n + 1 characters, as Python indices
Windows(txt, order) == 0..(Len(txt) - order - 1)

\* number of start indices i with txt[i..i+order) = c and txt[i+order] = s
Occurrences(txt, order, c, s) ==
    Cardinality({k \in Windows(txt, order) :
                    SubSeq(txt, k + 1, k + order) = c /\ txt[k + order + 1] = s})

\* a dict holds every key once
UniqueKeys(d) == Cardinality(DictKeys(d)) = Len(d)

MarkovCall == ret # <<>> /\ ret.fn = "count_markov_frequencies"

\* C11: for a text over the Alphabet and n in 1..13, countOrder(text, n) holds
\* for every pair (c, s) the number of start indices i in [0, len(text) - n) with
\* text[i..i+n) = c and text[i+n] = s; pairs with no such index are absent, no
\* count is zero, every key has length n; "mama" at n = 1 gives
\* {"m": {"a": 2}, "a": {"m": 1}}.
C11_EveryWindowOnce ==
    (MarkovCall /\ AllAllowed(ret.text)) =>
        /\ UniqueKeys(ret.value)
        /\ \A k \in 1..Len(ret.value) :
              LET c == ret.value[k][1]
                  symbols == ret.value[k][2]
              IN /\ Len(c) = ret.n
                 /\ symbols # <<>>
                 /\ UniqueKeys(symbols)
                 /\ \A j \in 1..Len(symbols) :
                       /\ symbols[j][2] >= 1
                       /\ symbols[j][2] = Occurrences(ret.text, ret.n, c, symbols[j][1])
        /\ \A w \in Windows(ret.text, ret.n) :
              LET c == SubSeq(ret.text, w + 1, w + ret.n)
                  s == ret.text[w + ret.n + 1]
              IN DictGet(DictGet(ret.value, c, <<>>), s, 0)
                    = Occurrences(ret.text, ret.n, c, s)
        /\ (ret.text = <<"m", "a", "m", "a">> /\ ret.n = 1) =>
              ret.value = << <<<<"m">>, << <<"a", 2>> >> >>,
                             <<<<"a">>, << <<"m", 1>> >> >> >>

\* the text "mama" counted at order 1
C11_Witness ==
    /\ MarkovCall
    /\ ret.text = <<"m", "a", "m", "a">>
    /\ ret.n = 1
    /\ Len(ret.value) = 2

\* a window of order 13 counted twice
C11_WitnessHighestOrder ==
    /\ MarkovCall /\ AllAllowed(ret.text)
    /\ ret.n = MaxOrder
    /\ \E k \in 1..Len(ret.value) : ret.value[k][2][1][2] = 2

OverallCall == ret # <<>> /\ ret.fn = "count_overall_frequencies"

\* number of positions of txt that hold c
CountOf(txt, c) == Cardinality({k \in 1..Len(txt) : txt[k] = c})

C12_WitnessNormalized ==
    /\ OverallCall
    /\ ret.text = <<"a", " ", "a", ",">>
    /\ text = ret.text

NormalizeCall == ret # <<>> /\ ret.fn = "normalize_text"

\* only Alphabet characters, no two spaces in a row, no space at either end
Normalized(s) ==
    /\ \A k \in 1..Len(s) : s[k] \in ALLOWED_CHARS
    /\ \A k \in 1..(Len(s) - 1) : ~(s[k] = " " /\ s[k + 1] = " ")
    /\ s # <<>> => (s[1] # " " /\ s[Len(s)] # " ")

\* C13: for every input string normalize_text returns a string of Alphabet
\* characters with no two consecutive spaces and no leading or trailing space,
\* and it returns an already-normalized string unchanged.
C13_NormalizedShape ==
    NormalizeCall =>
        /\ Normalized(ret.value)
        /\ text = ret.value
        /\ Normalized(ret.text) => ret.value = ret.text

\* an input with a leading foreign character, a capital and a run to collapse
C13_Witness ==
    /\ NormalizeCall
    /\ Len(ret.text) = MaxInputLen
    /\ ret.text[1] = "#"
    /\ \E k \in 1..Len(ret.text) : ret.text[k] = "A"
    /\ \E k \in 1..(Len(ret.text) - 1) : ret.text[k] \in {" ", "#"} /\ ret.text[k + 1] \in {" ", "#"}
    /\ Len(ret.value) >= 2

\* a normalizer output with a space inside, normalized again
C13_WitnessAgain ==
    /\ NormalizeCall
    /\ ret.text = ret.value
    /\ \E k \in 1..Len(ret.text) : ret.text[k] = " "

\* ================================================= generator context claims
IsSuffix(s, t) == Len(s) <= Len(t) /\ SubSeq(t, Len(t) - Len(s) + 1, Len(t)) = s

RECURSIVE back_off_contexts(_, _)
\* the values current_context takes while the back-off loop runs, in order
back_off_contexts(view, context) ==
    IF get_probabilities(view, context) = EmptyDict /\ Len(context) > 1
    THEN <<context>> \o back_off_contexts(view, drop_oldest(context))
    ELSE <<context>>

\* every context of the sequence is at most 13 long and a suffix of output
ContextsFit(contexts, output) ==
    \A k \in 1..Len(contexts) :
        Len(contexts[k]) <= 13 /\ IsSuffix(contexts[k], output)

\* C14: throughout generate_text currentContext is at most 13 characters long
\* and a suffix of the output so far (at the start, after every back-off
\* shortening and after every append); at the start it is the last
\* min(len(seed), 13) characters of the seed, and after symbol s is appended it
\* is the last 13 characters of (the context used for sampling + s).
C14_ContextInvariant ==
    pc \in {"generating", "generated"} =>
        /\ Len(current_context) <= 13
        /\ IsSuffix(current_context, result)
        /\ gi = 0 => current_context = Suffix(seed, Min(Len(seed), 13))
        /\ src # <<>> =>
              /\ ContextsFit(back_off_contexts(work, src.context),
                             SubSeq(result, 1, Len(result) - 1))
              /\ current_context = Suffix(src.used \o src.char,
                                          Min(Len(src.used) + 1, 13))
        /\ (pc = "generating" /\ gi < length) =>
              ContextsFit(back_off_contexts(work, current_context), result)

\* a 13-character context found at order 13: the append cuts the oldest character
C14_Witness ==
    /\ pc \in {"generating", "generated"} /\ src # <<>>
    /\ Len(seed) > MaxOrder
    /\ Len(src.used) = MaxOrder
    /\ Len(current_context) = MaxOrder
    /\ gi = 2

\* a 13-character context shortened by the back-off, then extended by the append
C14_WitnessBackOff ==
    /\ pc \in {"generating", "generated"} /\ src # <<>>
    /\ Len(src.context) = MaxOrder
    /\ Len(src.used) \in 2..(MaxOrder - 1)
    /\ Len(current_context) = Len(src.used) + 1

\* ====================================================== unit-of-work claims
\* C15: on every exit of save_markov_frequencies and save_markov_frequencies_bulk
\* (normal return or raised error, for every table T, also one with no rows) the
\* transaction the call opened has been committed or rolled back, so the
\* exclusive lock on the order-n table is released before anything else runs.
C15_SaveEndsTransaction ==
    (pc \in {"saved", "raised"} /\ n >= 1) => (~inTxn /\ n \notin locked)

====
